---- MODULE Spec2Model ----
(***************************************************************************)
(* Model of buttonHandler.h: class Button (one record per registered pin)  *)
(* and class ButtonHandler (the vector of records, the pin -> position     *)
(* map, the global handlers and the polling operation update()).           *)
(*                                                                         *)
(* The host program calls the public operations; update() calls the        *)
(* host's handlers back from inside its loop.  A handler is host code: it  *)
(* may call every public operation of the manager, update() included,      *)
(* before it returns.  So update() is not one step: it runs until it calls *)
(* a handler, the host then has control (stack holds the update() calls    *)
(* that wait for a handler to return), and it goes on when the handler     *)
(* returns (handlerReturn).  The hardware is the variable level; it        *)
(* changes whenever the host has control (PinChange) and between two       *)
(* digitalReads of the loop (the flips input).                             *)
(***************************************************************************)
EXTENDS Integers, Sequences, FiniteSets

\* ---------------------------------------------------------------- bounds
\* Most records the host's main code registers in the model.
MaxButtons == 2
\* Most records the host's handlers register on top of these, from inside
\* update(), where a specification gives them room (NextFired).
MaxAdded == 1
\* Longest std::vector<byte> passed to registerButton(std::vector<byte>).
MaxBatch == 2
\* Most update() calls that are active at one time: the one that runs and
\* those that wait in a handler which called update() again.
MaxDepth == 2
\* Most steps the host takes inside one handler before the handler returns:
\* calls of the manager's operations and changes of a level.
MaxCalls == 1

\* ------------------------------------------------------------- constants
\* Arduino logic levels, compared at buttonHandler.h:159.
HIGH == 1
LOW == 0

\* GPIO pin numbers the host program uses (byte; getState takes the same
\* numbers as int).
Pins == {2, 3}
\* What the byte of a record's pin can hold once the record's memory has
\* been freed and used again: any value.  0 and 179 stand for the values
\* that are no pin of the host program.
GarbagePins == {0, 179}
\* The pin numbers digitalRead can be called with.
AllPins == Pins \cup GarbagePins
\* Pairs <<press, release>> of per-button handlers (void (*)()).  The host
\* passes callable functions: a handler is named by the function it points to.
ButtonHandlerPairs == {<<"onPress", "onRelease">>}
\* Pairs <<press, release>> of manager handlers (void (*)(int)).
GlobalHandlerPairs == {<<"anyPressA", "anyReleaseA">>, <<"anyPressB", "anyReleaseB">>}
\* The value of a function pointer that was not initialised by a
\* constructor, or that is read from freed memory: it points to no handler.
Uninit == "uninitialised"
\* Placeholder of the fn field of an event that is not a call.
NoFn == "-"
\* History of a record that has seen no call: the kinds of its last two
\* calls, newest first.
NoCalls == <<"none", "none">>

VARIABLES
  buttons,        \* ButtonHandler::buttons, std::vector<Button>
  pinMap,         \* ButtonHandler::pinMap, std::map<int,int>: pin -> 0-based position
  pressHandler,   \* ButtonHandler::pressHandler
  releaseHandler, \* ButtonHandler::releaseHandler
  hasHandlers,    \* ButtonHandler::hasHandlers
  level,          \* hardware: what digitalRead(pin) returns now
  halted,         \* the program was stopped by an invalid memory access
  stack,          \* the update() calls that have called a handler which has not
                  \* returned yet, outermost first; the host has control inside
                  \* the handler called by the last one
  lastOp,         \* what happened last: the operation the host called, "handler"
                  \* when update() has just called a handler, "update" when an
                  \* update() call has just returned
  lastArg,        \* the pins passed to the operation (a sequence)
  ret,            \* what the last operation returned (FALSE when it returns nothing)
  trace,          \* after "handler" and "update": the digitalReads, stores and
                  \* handler calls made so far by that update() call, in order;
                  \* otherwise what the operation read
  during,         \* after "handler" and "update": whether that update() call was
                  \* re-entered, and whether a level changed while its handlers ran
  prev,           \* what happened before the last step (update, registerHandlers or
                  \* other), and whether it was the return, to the host's main code,
                  \* of an update() call during which no level changed and no
                  \* record was registered
  polled,         \* update() has been called at least once
  givenHandlers,  \* the manager handlers the host passed last (<<>>: none yet)
  fired,          \* per record: the kinds of the last two calls of its own handlers
  lastGlobal      \* per pin: the kind of the last manager handler call with that pin

vars == <<buttons, pinMap, pressHandler, releaseHandler, hasHandlers,
          level, halted, stack, lastOp, lastArg, ret, trace, during,
          prev, polled, givenHandlers, fired, lastGlobal>>

\* ------------------------------------------------------------ class Button
\* Button(byte _pin) with the state initialised to true.
ButtonStartsHigh(_pin) ==
  [pin |-> _pin, state |-> TRUE, pressHandler |-> "uninitialised",
   releaseHandler |-> "uninitialised", hasHandlers |-> FALSE]

\* Button(byte _pin): state(false), hasHandlers(false); the handler
\* pointers are left uninitialised.
Button(_pin) ==
  [pin |-> _pin, state |-> FALSE, pressHandler |-> Uninit,
   releaseHandler |-> Uninit, hasHandlers |-> FALSE]

\* Button(byte _pin, void (*)(), void (*)()): state(false), hasHandlers(true).
ButtonWithHandlers(_pin, _pressHandler, _releaseHandler) ==
  [pin |-> _pin, state |-> FALSE, pressHandler |-> _pressHandler,
   releaseHandler |-> _releaseHandler, hasHandlers |-> TRUE]

\* ------------------------------------------------------ container helpers
EmptyMap == [k \in {} |-> 0]

\* std::map::operator[] used as an lvalue that is assigned: m[k] = v.
MapAssign(m, k, v) ==
  [x \in (DOMAIN m) \cup {k} |-> IF x = k THEN v ELSE m[x]]

\* std::map::operator[] used as an rvalue: a missing key is inserted with a
\* value-initialised int (0) before its value is returned.
MapSubscript(m, k) ==
  IF k \in DOMAIN m THEN m ELSE MapAssign(m, k, 0)

\* buttons.insert(buttons.begin(), b); pinMap[_pin] = 0: the new record is
\* put before the existing ones.
PushFrontAndIndex(bs, pm, b) ==
  <<(<<b>> \o bs), MapAssign(pm, b.pin, 0)>>

\* push_back followed by pinMap.insert({pin, size - 1}), which keeps the
\* entry of a key that is already present.
PushAndIndexNoOverwrite(bs, pm, b) ==
  LET grown == Append(bs, b)
  IN  <<grown, IF b.pin \in DOMAIN pm THEN pm ELSE MapAssign(pm, b.pin, Len(grown) - 1)>>

\* buttons.push_back(b); pinMap[_pin] = buttons.size() - 1;
\* the result is the pair <<buttons, pinMap>>.
PushAndIndex(bs, pm, b) ==
  LET grown == Append(bs, b)
  IN  <<grown, MapAssign(pm, b.pin, Len(grown) - 1)>>

\* registerButton(byte _pin) on the pair <<buttons, pinMap>>.
RegisterOne(bs, pm, _pin) == PushAndIndex(bs, pm, Button(_pin))

\* The loop with the second assignment written pinMap[_pin] = buttons.size().
RECURSIVE RegisterEachOffByOne(_, _, _)
RegisterEachOffByOne(bs, pm, _pins) ==
  IF _pins = <<>> THEN <<bs, pm>>
  ELSE LET one == RegisterOne(bs, pm, Head(_pins))
           again == MapAssign(one[2], Head(_pins), Len(one[1]))
       IN  RegisterEachOffByOne(one[1], again, Tail(_pins))

\* The loop of registerButton(std::vector<byte>): registerButton(_pin), then
\* pinMap[_pin] = buttons.size() - 1 once more, for every element in order.
RECURSIVE RegisterEach(_, _, _)
RegisterEach(bs, pm, _pins) ==
  IF _pins = <<>> THEN <<bs, pm>>
  ELSE LET one == RegisterOne(bs, pm, Head(_pins))
           again == MapAssign(one[2], Head(_pins), Len(one[1]) - 1)
       IN  RegisterEach(one[1], again, Tail(_pins))

\* ----------------------------------------------------------------- events
Event(_kind, _rec, _pin, _level, _fn) ==
  [kind |-> _kind, rec |-> _rec, pin |-> _pin, level |-> _level, fn |-> _fn]

\* digitalRead(pin) on the hardware lv.
DigitalRead(lv, _pin) == lv[_pin]

\* newState computed for an active-low button.
NewStateActiveLow(reading) == (reading = LOW)

\* bool newState = (digitalRead(button.pin) == HIGH);
NewState(reading) == (reading = HIGH)

\* Dispatch without the tests of the two hasHandlers flags.
DispatchUnchecked(b, i, newState, hh, ph, rh) ==
  IF newState
  THEN <<Event("buttonPress", i, b.pin, HIGH, b.pressHandler),
         Event("press", i, b.pin, HIGH, ph)>>
  ELSE <<Event("buttonRelease", i, b.pin, LOW, b.releaseHandler),
         Event("release", i, b.pin, LOW, rh)>>

\* Dispatch without the else: the release calls follow the press calls.
DispatchFallsThrough(b, i, newState, hh, ph, rh) ==
  (IF newState
   THEN (IF b.hasHandlers
           THEN <<Event("buttonPress", i, b.pin, HIGH, b.pressHandler)>> ELSE <<>>)
        \o (IF hh THEN <<Event("press", i, b.pin, HIGH, ph)>> ELSE <<>>)
   ELSE <<>>)
  \o (IF b.hasHandlers
        THEN <<Event("buttonRelease", i, b.pin, LOW, b.releaseHandler)>> ELSE <<>>)
  \o (IF hh THEN <<Event("release", i, b.pin, LOW, rh)>> ELSE <<>>)

\* The handler calls of one record whose state changed to newState, in the
\* order the code makes them (lines 164-170).  i is the record's position
\* (1-based), hh/ph/rh the manager's hasHandlers/pressHandler/releaseHandler.
Dispatch(b, i, newState, hh, ph, rh) ==
  IF newState
  THEN (IF b.hasHandlers
          THEN <<Event("buttonPress", i, b.pin, HIGH, b.pressHandler)>> ELSE <<>>)
       \o (IF hh THEN <<Event("press", i, b.pin, HIGH, ph)>> ELSE <<>>)
  ELSE (IF b.hasHandlers
          THEN <<Event("buttonRelease", i, b.pin, LOW, b.releaseHandler)>> ELSE <<>>)
       \o (IF hh THEN <<Event("release", i, b.pin, LOW, rh)>> ELSE <<>>)


\* The comparison without the assignment button.state = newState.
UpdateButtonNoStore(b, i, reading) ==
  LET newState == (reading = HIGH)
      readEv == Event("read", i, b.pin, reading, NoFn)
  IN  IF newState # b.state
      THEN [button |-> b, changed |-> TRUE, newState |-> newState, events |-> <<readEv>>]
      ELSE [button |-> b, changed |-> FALSE, newState |-> newState, events |-> <<readEv>>]

\* The new state stored in a record built anew with Button(byte): the
\* record's handlers are lost.
UpdateButtonRebuilds(b, i, reading) ==
  LET newState == (reading = HIGH)
      readEv == Event("read", i, b.pin, reading, NoFn)
  IN  IF newState # b.state
      THEN [button |-> [Button(b.pin) EXCEPT !.state = newState],
            changed |-> TRUE, newState |-> newState,
            events |-> <<readEv, Event("store", i, b.pin, reading, NoFn)>>]
      ELSE [button |-> b, changed |-> FALSE, newState |-> newState, events |-> <<readEv>>]

\* Lines 159-162 for one record b at position i: the digitalRead, the
\* comparison with the stored state and, if they differ, the assignment
\* button.state = newState.  The result is the record afterwards, whether
\* the branch of line 161 is taken, newState, and the events: the read and,
\* if the state was assigned, the store.
UpdateButton(b, i, reading) ==
  LET newState == NewState(reading)
      readEv == Event("read", i, b.pin, reading, NoFn)
  IN  IF newState # b.state
      THEN [button |-> [b EXCEPT !.state = newState],
            changed |-> TRUE, newState |-> newState,
            events |-> <<readEv, Event("store", i, b.pin, reading, NoFn)>>]
      ELSE [button |-> b, changed |-> FALSE, newState |-> newState, events |-> <<readEv>>]

Toggle(lv, _pin) == [lv EXCEPT ![_pin] = IF @ = HIGH THEN LOW ELSE HIGH]

\* ------------------------------------------------------ a running update()
\* An update() call that has just been entered on a vector of n records:
\*   i        position (1-based) of the record the loop is at, 0 before the first
\*   changed  the branch of line 161 was taken for that record
\*   up       newState of that record
\*   n        how many handlers have been called for that record
\*   end      buttons.end() as the range-for evaluated it once, before the loop
\*   dangling a push_back has reallocated the vector's buffer since the
\*            loop began: the loop's iterator and the reference button point
\*            into the freed buffer
\*   tr       the events of the call so far
\*   entered  a handler called by this call (or by an update() called from
\*            one) has called an operation that changes the manager:
\*            registerButton, registerHandlers, update(), or getState with
\*            a pin that is no key of the index
\*   moved    the level of a pin has changed while such a handler ran
\*   acts     how many steps the host has taken in the handler that runs
NewFrame(n) ==
  [i |-> 0, changed |-> FALSE, up |-> FALSE, n |-> 0, end |-> n,
   dangling |-> FALSE, tr |-> <<>>, entered |-> FALSE, moved |-> FALSE, acts |-> 0]

\* The record the reference button of the loop of f denotes at position j:
\* the record of the vector, or what the freed buffer holds there (junk).
RecordAt(bs, f, junk, j) == IF f.dangling THEN junk[j] ELSE bs[j]

\* The record b as lines 165-169 use it for the call that comes after the
\* f.n calls already made for it: button.hasHandlers was tested before the
\* first of them (line 165 or 168; the record's own handler was called if
\* the first call made is one of a record's own handler), button.pin is
\* read when the manager's handler is called (line 166 or 169).
Tested(f, b) ==
  [b EXCEPT !.hasHandlers =
     IF f.n = 0 THEN @
     ELSE f.tr[Len(f.tr) - f.n + 1].kind \in {"buttonPress", "buttonRelease"}]

\* The loop running from the last record to the first.
RECURSIVE UpdateLoopBackwards(_, _, _, _, _, _, _, _)
UpdateLoopBackwards(bs, lv, flips, f, junk, hh, ph, rh) ==
  LET at == f.end + 1 - f.i
      calls == IF f.changed
               THEN Dispatch(Tested(f, RecordAt(bs, f, junk, at)), at, f.up, hh, ph, rh)
               ELSE <<>>
  IN  IF f.n < Len(calls)
      THEN [buttons |-> bs, level |-> lv, done |-> FALSE, flipped |-> FALSE,
            wild |-> (calls[f.n + 1].fn = Uninit),
            frame |-> [f EXCEPT !.n = @ + 1, !.acts = 0,
                                !.tr = Append(@, calls[f.n + 1])]]
      ELSE IF f.i >= f.end
      THEN [buttons |-> bs, level |-> lv, done |-> TRUE, flipped |-> FALSE,
            wild |-> FALSE, frame |-> f]
      ELSE LET j == f.end - f.i
               b == RecordAt(bs, f, junk, j)
               lv2 == IF j \in flips THEN Toggle(lv, b.pin) ELSE lv
               step == UpdateButton(b, j, DigitalRead(lv2, b.pin))
               rest == UpdateLoopBackwards(
                         IF f.dangling THEN bs ELSE [bs EXCEPT ![j] = step.button],
                         lv2, flips,
                         [f EXCEPT !.i = @ + 1, !.changed = step.changed,
                                   !.up = step.changed /\ step.newState, !.n = 0,
                                   !.tr = @ \o step.events],
                         IF f.dangling THEN [junk EXCEPT ![j] = step.button] ELSE junk,
                         hh, ph, rh)
           IN  [rest EXCEPT !.flipped = @ \/ j \in flips]

\* update() running on from f until it calls a handler or returns (lines
\* 158-172).  First the calls still to make for the record the loop is at:
\* the tests of lines 165-169 are made now, with the manager's members
\* hh/ph/rh as they are now.  If there is one, it is made and the host has
\* control (done is FALSE).  If not, the loop goes to the next record:
\* digitalRead, comparison, store.  flips is the set of positions before
\* whose digitalRead the level of that record's pin changes (the hardware
\* is not synchronised with the loop); flipped tells whether one did.  A
\* loop whose iterator dangles reads and writes the freed buffer, not the
\* vector: junk is what the freed buffer holds while this piece of the loop
\* runs.  wild tells that the call made goes through a pointer that points
\* to no handler.
RECURSIVE UpdateLoop(_, _, _, _, _, _, _, _)
UpdateLoop(bs, lv, flips, f, junk, hh, ph, rh) ==
  LET calls == IF f.changed
               THEN Dispatch(Tested(f, RecordAt(bs, f, junk, f.i)), f.i, f.up, hh, ph, rh)
               ELSE <<>>
  IN  IF f.n < Len(calls)
      THEN [buttons |-> bs, level |-> lv, done |-> FALSE, flipped |-> FALSE,
            wild |-> (calls[f.n + 1].fn = Uninit),
            frame |-> [f EXCEPT !.n = @ + 1, !.acts = 0,
                                !.tr = Append(@, calls[f.n + 1])]]
      ELSE IF f.i >= f.end
      THEN [buttons |-> bs, level |-> lv, done |-> TRUE, flipped |-> FALSE,
            wild |-> FALSE, frame |-> f]
      ELSE LET j == f.i + 1
               b == RecordAt(bs, f, junk, j)
               lv2 == IF j \in flips THEN Toggle(lv, b.pin) ELSE lv
               step == UpdateButton(b, j, DigitalRead(lv2, b.pin))
               rest == UpdateLoop(
                         IF f.dangling THEN bs ELSE [bs EXCEPT ![j] = step.button],
                         lv2, flips,
                         [f EXCEPT !.i = j, !.changed = step.changed,
                                   !.up = step.changed /\ step.newState, !.n = 0,
                                   !.tr = @ \o step.events],
                         IF f.dangling THEN [junk EXCEPT ![j] = step.button] ELSE junk,
                         hh, ph, rh)
           IN  [rest EXCEPT !.flipped = @ \/ j \in flips]

\* What a step of the host inside a handler leaves of the waiting update()
\* calls: the handler that runs has taken one more step.
Acted(st) ==
  [k \in DOMAIN st |-> IF k = Len(st) THEN [st[k] EXCEPT !.acts = @ + 1] ELSE st[k]]

\* What a manager operation called from inside a handler leaves of the
\* waiting update() calls: they have been re-entered.
MarkEntered(st) == [k \in DOMAIN st |-> [st[k] EXCEPT !.entered = TRUE]]

\* What a change of level leaves of the waiting update() calls.
MarkMoved(st) == [k \in DOMAIN st |-> [st[k] EXCEPT !.moved = TRUE]]

\* What is known of an operation that is no update() call: nothing of this.
Quiet == [entered |-> FALSE, moved |-> FALSE]

\* What the memory of the record b can hold after the buffer was freed:
\* each member is as it was (its bytes have not been used again), or is
\* whatever the allocator and a later allocation (the node of
\* pinMap[_pin], lines 91 and 149, the vector's next buffer, the host's
\* own data) have written there: any pin, any state, any flag, a pointer
\* that points to no handler.  (A state byte that is neither 0 nor 1
\* differs from every level read, as the opposite of that level does.)
FreedRecords(b) ==
  {[pin |-> p, state |-> s, pressHandler |-> ph, releaseHandler |-> rh,
    hasHandlers |-> h] :
     p \in AllPins, s \in BOOLEAN, h \in BOOLEAN,
     ph \in {b.pressHandler, Uninit}, rh \in {b.releaseHandler, Uninit}}

\* What a loop that stands at position from can find in the freed buffer
\* of the vector bs, up to position to.  The records before from are not
\* read again and are left as they were; of the record at from, whose
\* flag was tested and whose own handler was called, only the pin is read
\* again (line 166 or 169).
RECURSIVE FreedBuffers(_, _, _)
FreedBuffers(bs, from, to) ==
  IF to = 0 THEN {<<>>}
  ELSE {Append(q, r) :
          q \in FreedBuffers(bs, from, to - 1),
          r \in IF to < from THEN {bs[to]}
                ELSE IF to = from THEN {[bs[to] EXCEPT !.pin = p] : p \in AllPins}
                ELSE FreedRecords(bs[to])}

\* What the loop of the frame f finds where its reference points when it
\* runs on: nothing but the vector if its iterator is valid; if it dangles,
\* whatever the freed buffer holds by now (the handler that has just
\* returned may have allocated and written any memory).
Junk(bs, f) == IF f.dangling THEN FreedBuffers(bs, f.i, f.end) ELSE {<<>>}

\* What a push_back that reallocates the buffer leaves of the waiting
\* update() calls: the iterator and the reference of every loop point into
\* the freed buffer.
Reallocated(st) ==
  [k \in DOMAIN st |-> [st[k] EXCEPT !.entered = TRUE, !.dangling = TRUE]]

\* No waiting update() call has a dangling iterator.
NoDangling(st) == \A k \in DOMAIN st : ~st[k].dangling

\* -------------------------------------------------------------------- Init
\* ButtonHandler() leaves the handlers uninitialised, hasHandlers(false);
\* ButtonHandler(press, release) sets them, hasHandlers(true).
Init ==
  /\ buttons = <<>>
  /\ pinMap = EmptyMap
  /\ \/ /\ hasHandlers = FALSE
        /\ pressHandler = Uninit
        /\ releaseHandler = Uninit
        /\ givenHandlers = <<>>
     \/ /\ hasHandlers = TRUE
        /\ \E hp \in GlobalHandlerPairs :
             pressHandler = hp[1] /\ releaseHandler = hp[2] /\ givenHandlers = hp
  /\ \E wired \in [Pins -> {LOW, HIGH}] :
       level = [p \in AllPins |-> IF p \in Pins THEN wired[p] ELSE LOW]
  /\ halted = FALSE
  /\ stack = <<>>
  /\ lastOp = "construct"
  /\ lastArg = <<>>
  /\ ret = FALSE
  /\ trace = <<>>
  /\ during = Quiet
  /\ prev = [op |-> "none", stable |-> FALSE]
  /\ polled = FALSE
  /\ fired = <<>>
  /\ lastGlobal = [P \in Pins |-> "none"]

\* ------------------------------------------------------------ observation
\* Every digitalRead recorded in tr returned the level lv of its pin.
StableReads(tr, lv) ==
  \A k \in 1..Len(tr) : tr[k].kind = "read" => tr[k].level = lv[tr[k].pin]

\* The digitalReads that tr holds.
IsRead(e) == e.kind = "read"
Reads(tr) == SelectSeq(tr, IsRead)

\* An update() call has just returned during which the level of no pin
\* changed (the reads all show the levels as they are, and none changed
\* while a handler ran) and no record was registered (every record was
\* read).
QuietlyPolled ==
  /\ lastOp = "update"
  /\ ~during.moved
  /\ StableReads(trace, level)
  /\ Len(Reads(trace)) = Len(buttons)

\* What prev keeps of an operation's name.
PrevKind(_op) == IF _op \in {"update", "registerHandlers"} THEN _op ELSE "other"

\* What a step leaves in the observation variables.
Observe(_op, _arg, _ret, _trace, _during) ==
  /\ lastOp' = _op
  /\ lastArg' = _arg
  /\ ret' = _ret
  /\ trace' = _trace
  /\ during' = _during
  /\ prev' = [op |-> PrevKind(lastOp),
              stable |-> (QuietlyPolled /\ stack = <<>>)]
  /\ polled' = (polled \/ _op \in {"update", "handler"})

\* ---------------------------------------------------------------- history
\* The history h after the calls, in their order.
RECURSIVE AfterCalls(_, _)
AfterCalls(h, calls) ==
  IF calls = <<>> THEN h
  ELSE AfterCalls(<<Head(calls).kind, h[1]>>, Tail(calls))

\* The events a step has added to those (before) of the update() call it
\* belongs to; none for a step that is not one of update().
Added(before) ==
  IF lastOp' \in {"update", "handler"}
  THEN SubSeq(trace', Len(before) + 1, Len(trace')) ELSE <<>>

\* fired after a step: a new record has seen no call; an existing one has
\* seen, in addition, the calls of its own handlers that the step made.
FiredAfter(before) ==
  [i \in 1..Len(buttons') |->
     IF i <= Len(buttons)
     THEN LET Mine(e) == e.rec = i /\ e.kind \in {"buttonPress", "buttonRelease"}
          IN  AfterCalls(fired[i], SelectSeq(Added(before), Mine))
     ELSE NoCalls]

\* lastGlobal after a step: per pin, the kind of the last manager handler
\* call with that pin.
LastGlobalAfter(before) ==
  [P \in Pins |->
     LET Mine(e) == e.pin = P /\ e.kind \in {"press", "release"}
     IN  AfterCalls(<<lastGlobal[P], "none">>, SelectSeq(Added(before), Mine))[1]]

\* The history a step leaves when the calls are not followed.
Forget == UNCHANGED <<fired, lastGlobal>>

\* The history a step leaves when the calls of the records' own handlers
\* are followed; before is what the update() call the step belongs to had
\* done before the step.
TrackFired(before) ==
  /\ fired' = FiredAfter(before)
  /\ UNCHANGED lastGlobal

\* The history a step leaves when the calls of the manager's handlers are
\* followed.
TrackGlobal(before) ==
  /\ lastGlobal' = LastGlobalAfter(before)
  /\ UNCHANGED fired

\* ----------------------------------------------------------------- actions
\* The host has control: no update() is running, or the one that runs last
\* has called a handler that has not returned.  (A program that was stopped
\* does nothing.)
HostRuns == ~halted

\* The host may take a step: outside every handler, or inside one that has
\* not taken MaxCalls steps yet.
HostActs ==
  /\ HostRuns
  /\ IF stack = <<>> THEN TRUE ELSE stack[Len(stack)].acts < MaxCalls

\* What a push_back (grows is TRUE) or another manager operation does to
\* the waiting update() calls.  Whether push_back reallocates is for the
\* library's growth policy to decide; it matters only to a loop whose
\* iterator points into the vector.  What the freed buffer holds is not
\* settled here: this allocation and every later one may write to it, so
\* the contents are those the loop finds when it runs on (Junk).
Reenter(grows) ==
  \E realloc \in BOOLEAN :
    /\ realloc => (grows /\ \E k \in DOMAIN stack : ~stack[k].dangling)
    /\ stack' = IF realloc THEN Reallocated(Acted(stack)) ELSE MarkEntered(Acted(stack))

\* void registerButton(byte _pin)
registerButton(_pin) ==
  /\ HostActs
  /\ LET r == RegisterOne(buttons, pinMap, _pin)
     IN  buttons' = r[1] /\ pinMap' = r[2]
  /\ Reenter(TRUE)
  /\ Observe("registerButton", <<_pin>>, FALSE, <<>>, Quiet)
  /\ UNCHANGED <<pressHandler, releaseHandler, hasHandlers, level, halted, givenHandlers>>

\* void registerButton(std::vector<byte> _pins)
registerButtons(_pins) ==
  /\ HostActs
  /\ LET r == RegisterEach(buttons, pinMap, _pins)
     IN  buttons' = r[1] /\ pinMap' = r[2]
  /\ Reenter(_pins # <<>>)
  /\ Observe("registerButtons", _pins, FALSE, <<>>, Quiet)
  /\ UNCHANGED <<pressHandler, releaseHandler, hasHandlers, level, halted, givenHandlers>>

\* void registerButton(byte _pin, void (*_pressHandler)(), void (*_releaseHandler)())
registerButtonWithHandlers(_pin, _pressHandler, _releaseHandler) ==
  /\ HostActs
  /\ LET r == PushAndIndex(buttons, pinMap,
                           ButtonWithHandlers(_pin, _pressHandler, _releaseHandler))
     IN  buttons' = r[1] /\ pinMap' = r[2]
  /\ Reenter(TRUE)
  /\ Observe("registerButtonWithHandlers", <<_pin>>, FALSE, <<>>, Quiet)
  /\ UNCHANGED <<pressHandler, releaseHandler, hasHandlers, level, halted, givenHandlers>>

\* The members registerHandlers assigns: <<pressHandler, releaseHandler, hasHandlers>>.
SetHandlers(_pressHandler, _releaseHandler) ==
  <<_pressHandler, _releaseHandler, TRUE>>

\* void registerHandlers(void (*_pressHandler)(int), void (*_releaseHandler)(int))
registerHandlers(_pressHandler, _releaseHandler) ==
  /\ HostActs
  /\ LET r == SetHandlers(_pressHandler, _releaseHandler)
     IN  pressHandler' = r[1] /\ releaseHandler' = r[2] /\ hasHandlers' = r[3]
  /\ givenHandlers' = <<_pressHandler, _releaseHandler>>
  /\ Reenter(FALSE)
  /\ Observe("registerHandlers", <<>>, FALSE, <<>>, Quiet)
  /\ UNCHANGED <<buttons, pinMap, level, halted>>

\* bool getState(int _pin) { return buttons[pinMap[_pin]].state; }
\* pinMap[_pin] inserts a missing key with value 0.  buttons[n] past the end
\* of the vector is an out-of-bounds read: the program stops, or goes on
\* with whatever the read produced.  The trace records which record was read.
\* The node that pinMap[_pin] inserts is allocated memory: it can lie in a
\* buffer the vector has freed, which a loop with a dangling iterator reads
\* when it runs on (Junk).
getState(_pin) ==
  /\ HostActs
  /\ pinMap' = MapSubscript(pinMap, _pin)
  /\ LET pos == pinMap'[_pin]
     IN  IF pos < Len(buttons)
         THEN /\ halted' = FALSE
              /\ Observe("getState", <<_pin>>, buttons[pos + 1].state,
                         <<Event("stateRead", pos + 1, buttons[pos + 1].pin, LOW, NoFn)>>,
                         Quiet)
         ELSE \/ /\ halted' = TRUE
                 /\ Observe("getState", <<_pin>>, FALSE,
                            <<Event("outOfBounds", pos + 1, _pin, LOW, NoFn)>>, Quiet)
              \/ /\ halted' = FALSE
                 /\ \E garbage \in BOOLEAN :
                      Observe("getState", <<_pin>>, garbage,
                              <<Event("outOfBounds", pos + 1, _pin, LOW, NoFn)>>, Quiet)
  /\ stack' = IF pinMap' = pinMap THEN Acted(stack) ELSE MarkEntered(Acted(stack))
  /\ UNCHANGED <<buttons, pressHandler, releaseHandler, hasHandlers, level, givenHandlers>>

\* What update() leaves when it has run on to r: it has called a handler
\* and waits for it (the call is the last of stack), or it has returned.
\* below is stack without the call: the calls that wait in a handler while
\* this one runs, for which a level that changes between two digitalReads
\* of this one changes while their handler runs.
RunsOn(r, below) ==
  /\ buttons' = r.buttons
  /\ level' = r.level
  /\ LET waiting == IF r.flipped THEN MarkMoved(below) ELSE below
     IN  stack' = IF r.done THEN waiting ELSE Append(waiting, r.frame)
  /\ Observe(IF r.done THEN "update" ELSE "handler", <<>>, FALSE, r.frame.tr,
             [entered |-> r.frame.entered, moved |-> r.frame.moved])
  /\ halted' = r.wild
  /\ UNCHANGED <<pinMap, pressHandler, releaseHandler, hasHandlers, givenHandlers>>

\* void update(), called by the host (from a handler, if an update() is
\* waiting): it runs until it calls a handler or, calling none, returns.
update(flips) ==
  /\ HostActs
  /\ Len(stack) < MaxDepth
  /\ RunsOn(UpdateLoop(buttons, level, flips, NewFrame(Len(buttons)), <<>>,
                       hasHandlers, pressHandler, releaseHandler),
            MarkEntered(Acted(stack)))

\* The handler that the update() call waiting last has called returns, and
\* the call runs on until it calls the next handler or returns.  If a
\* push_back has reallocated the buffer since the loop began, the loop uses
\* an invalid iterator: the program stops there (the access is caught), or
\* the loop goes on in the freed buffer, whatever that holds now.
handlerReturn(flips) ==
  /\ HostRuns
  /\ stack # <<>>
  /\ LET f == stack[Len(stack)]
         below == SubSeq(stack, 1, Len(stack) - 1)
     IN  /\ flips \subseteq (f.i + 1)..f.end
         /\ \/ \E junk \in Junk(buttons, f) :
                 RunsOn(UpdateLoop(buttons, level, flips, f, junk,
                                   hasHandlers, pressHandler, releaseHandler), below)
            \/ /\ f.dangling
               /\ halted' = TRUE
               /\ Observe("useAfterFree", <<>>, FALSE, <<>>, Quiet)
               /\ UNCHANGED <<buttons, pinMap, pressHandler, releaseHandler,
                              hasHandlers, level, givenHandlers, stack>>

\* The hardware: the level of one pin changes while the host has control.
PinChange(_pin) ==
  /\ HostActs
  /\ level' = Toggle(level, _pin)
  /\ stack' = MarkMoved(Acted(stack))
  /\ Observe("pinChange", <<_pin>>, FALSE, <<>>, Quiet)
  /\ UNCHANGED <<buttons, pinMap, pressHandler, releaseHandler, hasHandlers,
                 halted, givenHandlers>>

\* Sequences of pins of length 0..MaxBatch.
PinBatches == UNION {[1..n -> Pins] : n \in 0..MaxBatch}

\* What the waiting update() call that ran last had done (<<>> if none waits).
TopTrace == IF stack = <<>> THEN <<>> ELSE stack[Len(stack)].tr

\* The vector holds no more than n records after the step: the bound on
\* the registrations of a specification (the code has none).
Within(n) == Len(buttons') <= n

Next ==
  \/ \E p \in Pins : registerButton(p) /\ Within(MaxButtons) /\ Forget
  \/ \E ps \in PinBatches : registerButtons(ps) /\ Within(MaxButtons) /\ Forget
  \/ \E p \in Pins : \E hp \in ButtonHandlerPairs :
       registerButtonWithHandlers(p, hp[1], hp[2]) /\ Within(MaxButtons) /\ Forget
  \/ \E hp \in GlobalHandlerPairs : registerHandlers(hp[1], hp[2]) /\ Forget
  \/ \E p \in Pins : getState(p) /\ Forget
  \/ \E flips \in SUBSET (1..Len(buttons)) : update(flips) /\ Forget
  \/ \E flips \in SUBSET (1..Len(buttons)) : handlerReturn(flips) /\ Forget
  \/ \E p \in Pins : PinChange(p) /\ Forget

Spec == Init /\ [][Next]_vars

\* ------------------------------------------------------ other specifications
\* getState where the vector access buttons[pinMap[_pin]] is within bounds.
getStateDefined(_pin) ==
  /\ getState(_pin)
  /\ ~halted'
  /\ trace'[1].kind = "stateRead"

\* The behaviours of the program that are free of undefined behaviour:
\* the operations of Next, getState only where its vector access is within
\* bounds, a push_back under a running loop only where it leaves the
\* loop's iterator valid (the buffer has room).
NextDefined ==
  \/ \E p \in Pins : registerButton(p) /\ Within(MaxButtons) /\ NoDangling(stack') /\ Forget
  \/ \E ps \in PinBatches : registerButtons(ps) /\ Within(MaxButtons) /\ NoDangling(stack') /\ Forget
  \/ \E p \in Pins : \E hp \in ButtonHandlerPairs :
       registerButtonWithHandlers(p, hp[1], hp[2]) /\ Within(MaxButtons) /\ NoDangling(stack') /\ Forget
  \/ \E hp \in GlobalHandlerPairs : registerHandlers(hp[1], hp[2]) /\ Forget
  \/ \E p \in Pins : getStateDefined(p) /\ Forget
  \/ \E flips \in SUBSET (1..Len(buttons)) : update(flips) /\ Forget
  \/ \E flips \in SUBSET (1..Len(buttons)) : handlerReturn(flips) /\ Forget
  \/ \E p \in Pins : PinChange(p) /\ Forget

SpecDefined == Init /\ [][NextDefined]_vars

\* Most records the vector holds after a registration under NextFired:
\* the main code registers MaxButtons, a handler MaxAdded more.
Room == IF stack = <<>> THEN MaxButtons ELSE MaxButtons + MaxAdded

\* A host whose handlers register pins and do nothing else: update(),
\* registerHandlers, getState and the changes of level happen in the main
\* code, between two update() calls.  A handler may register a record
\* beyond the MaxButtons of the main code, so that a loop whose buffer was
\* reallocated has a further record to go to.  The calls of the records'
\* own handlers are followed in fired.  Every step is one of the program.
NextFired ==
  \/ \E p \in Pins : registerButton(p) /\ Within(Room) /\ TrackFired(<<>>)
  \/ \E ps \in PinBatches : registerButtons(ps) /\ Within(Room) /\ TrackFired(<<>>)
  \/ \E p \in Pins : \E hp \in ButtonHandlerPairs :
       registerButtonWithHandlers(p, hp[1], hp[2]) /\ Within(Room) /\ TrackFired(<<>>)
  \/ \E hp \in GlobalHandlerPairs :
       registerHandlers(hp[1], hp[2]) /\ stack = <<>> /\ TrackFired(<<>>)
  \/ \E p \in Pins : getState(p) /\ stack = <<>> /\ TrackFired(<<>>)
  \/ update({}) /\ stack = <<>> /\ TrackFired(<<>>)
  \/ handlerReturn({}) /\ TrackFired(TopTrace)
  \/ \E p \in Pins : PinChange(p) /\ stack = <<>> /\ TrackFired(<<>>)

SpecFired == Init /\ [][NextFired]_vars

\* update() called with the manager's handlers registered, no level
\* changing while its loop runs.
updateRegular ==
  /\ hasHandlers
  /\ update({})

\* The behaviours in which every update() is regular: the manager's
\* handlers are registered before the first update() and the level of no
\* pin changes from the call of an update() to its return, the time its
\* handlers take included; getState is called with registered pins.  The
\* handlers call the operations as under Next.  The calls of the manager's
\* handlers are followed in lastGlobal.
NextRegular ==
  \/ \E p \in Pins : registerButton(p) /\ Within(MaxButtons) /\ TrackGlobal(<<>>)
  \/ \E ps \in PinBatches : registerButtons(ps) /\ Within(MaxButtons) /\ TrackGlobal(<<>>)
  \/ \E p \in Pins : \E hp \in ButtonHandlerPairs :
       registerButtonWithHandlers(p, hp[1], hp[2]) /\ Within(MaxButtons) /\ TrackGlobal(<<>>)
  \/ \E hp \in GlobalHandlerPairs : registerHandlers(hp[1], hp[2]) /\ TrackGlobal(<<>>)
  \/ \E p \in Pins : getStateDefined(p) /\ TrackGlobal(<<>>)
  \/ updateRegular /\ TrackGlobal(<<>>)
  \/ handlerReturn({}) /\ TrackGlobal(TopTrace)
  \/ \E p \in Pins : PinChange(p) /\ stack = <<>> /\ TrackGlobal(<<>>)

SpecRegular == Init /\ [][NextRegular]_vars

\* ---------------------------------------------------------------- claims
\* An update() call has just returned; trace holds all it did.
Returned == lastOp = "update"

\* trace holds what an update() call has done so far: the call has just
\* called a handler, or has just returned.
InCall == lastOp \in {"update", "handler"}

\* No handler called during the update() call that trace belongs to has
\* called an operation that changes the manager.
Clean == ~during.entered

\* The step has run code of update(): the host has called it, or a handler
\* it had called has returned.
Ran == lastOp' \in {"update", "handler"}

\* The step is a call of update() by the host.
Called ==
  \/ lastOp' = "update" /\ Len(stack') = Len(stack)
  \/ lastOp' = "handler" /\ Len(stack') = Len(stack) + 1

\* The events the step has added to those of its update() call.
Step == Added(IF Called THEN <<>> ELSE TopTrace)

\* Some record of bs holds pin P: P is registered.
HasRecord(bs, P) == \E i \in 1..Len(bs) : bs[i].pin = P

\* What getState(P) returns for a registered pin P: buttons[pinMap[P]].state.
StateOf(bs, pm, P) == bs[pm[P] + 1].state

\* The events of tr that belong to the record at position i.
EventsOf(tr, i) ==
  LET Mine(e) == e.rec = i IN SelectSeq(tr, Mine)

\* Every digitalRead of pin P recorded in tr returned lvl.
ReadsAre(tr, P, lvl) ==
  \A k \in 1..Len(tr) : (tr[k].kind = "read" /\ tr[k].pin = P) => tr[k].level = lvl

\* No event of tr with pin P has one of the kinds.
NoEvent(tr, P, kinds) ==
  \A k \in 1..Len(tr) : ~(tr[k].pin = P /\ tr[k].kind \in kinds)

ReleaseKinds == {"buttonRelease", "release"}
PressKinds == {"buttonPress", "press"}
OwnKinds == {"buttonPress", "buttonRelease"}
GlobalKinds == {"press", "release"}
CallKinds == ReleaseKinds \cup PressKinds

\* The positions of the records of pin P that tr holds a digitalRead for:
\* the records of P that existed when the update() call began.
ReadOf(tr, P) == {tr[k].rec : k \in {m \in 1..Len(tr) : IsRead(tr[m]) /\ tr[m].pin = P}}

\* The last of them: the record the index pointed at for P when the call
\* began, the one getState(P) looked up then.
IndexedOf(tr, P) == CHOOSE i \in ReadOf(tr, P) : \A j \in ReadOf(tr, P) : j <= i

\* tr holds a store of the level lvl for the record at position i: the
\* record stored the other level and lvl was read.
Stored(tr, i, lvl) ==
  \E k \in 1..Len(tr) : tr[k].kind = "store" /\ tr[k].rec = i /\ tr[k].level = lvl

\* tr holds a store for the record at position i.
Changed(tr, i) == Stored(tr, i, LOW) \/ Stored(tr, i, HIGH)

\* C1 (as claimed): whenever update() has called the manager's press
\* handler, the argument is the pin P of the record the call is for, a pin
\* that this update() has read high for that record.
C1_PressArgument ==
  InCall =>
    \A k \in 1..Len(trace) :
      trace[k].kind = "press" =>
        /\ trace[k].pin = buttons[trace[k].rec].pin
        /\ \E m \in 1..(k - 1) :
             /\ IsRead(trace[m]) /\ trace[m].rec = trace[k].rec
             /\ trace[m].pin = trace[k].pin /\ trace[m].level = HIGH

\* C2 (as claimed): whenever update() has called the manager's release
\* handler, the argument is the pin P of the record the call is for, a pin
\* that this update() has read low for that record.
C2_ReleaseArgument ==
  InCall =>
    \A k \in 1..Len(trace) :
      trace[k].kind = "release" =>
        /\ trace[k].pin = buttons[trace[k].rec].pin
        /\ \E m \in 1..(k - 1) :
             /\ IsRead(trace[m]) /\ trace[m].rec = trace[k].rec
             /\ trace[m].pin = trace[k].pin /\ trace[m].level = LOW

\* C3 (as claimed): when an update() call returns whose reads of a
\* registered pin P all equal getState(P) as it was before the call (the
\* record getState looked up was read and not stored), the call has called
\* no handler of a record of P and no manager handler with argument P, and
\* getState(P) is what it was.
C3_NoChangeNoCallback ==
  Returned =>
    \A P \in Pins : \A lvl \in {LOW, HIGH} :
      (/\ ReadOf(trace, P) # {}
       /\ ReadsAre(trace, P, lvl)
       /\ ~Changed(trace, IndexedOf(trace, P)))
      => /\ NoEvent(trace, P, CallKinds)
         /\ StateOf(buttons, pinMap, P) = (lvl = HIGH)

\* C4: before the first update(), getState(P) is false for every registered
\* pin P: the record it looks up stores false and a getState call on it
\* returns false, whatever the level of the pin.
C4_FalseBeforeFirstUpdate ==
  ~polled =>
    /\ \A P \in Pins : HasRecord(buttons, P) => ~StateOf(buttons, pinMap, P)
    /\ (lastOp = "getState" /\ HasRecord(buttons, lastArg[1]))
         => (~halted /\ ret = FALSE /\ trace[1].kind = "stateRead"
             /\ trace[1].pin = lastArg[1])

\* getState has just returned false for a registered pin whose level is
\* high, a second record being registered, before any update().
C4_Witness ==
  /\ ~polled
  /\ lastOp = "getState"
  /\ HasRecord(buttons, lastArg[1])
  /\ level[lastArg[1]] = HIGH
  /\ Len(buttons) = MaxButtons
  /\ \E i \in 1..Len(buttons) : buttons[i].hasHandlers
  /\ ret = FALSE

\* C5: an update() called directly after the return of an update(), the
\* level of no pin changing and no record being registered during or
\* between the two calls, returns without calling a handler and changes no
\* record.
C5_SecondUpdateIsQuiet ==
  [][(/\ QuietlyPolled
      /\ Called
      /\ StableReads(trace', level) /\ level' = level)
     => /\ lastOp' = "update"
        /\ \A k \in 1..Len(trace') : trace'[k].kind = "read"
        /\ buttons' = buttons
    ]_vars

\* A second update() in a row on stable levels has just returned on a
\* manager with handlers whose two records hold the same pin, stored high.
C5_Witness ==
  /\ Returned /\ prev.op = "update" /\ prev.stable
  /\ stack = <<>>
  /\ StableReads(trace, level)
  /\ hasHandlers
  /\ Len(buttons) = 2 /\ buttons[1].pin = buttons[2].pin
  /\ buttons[1].state /\ buttons[2].state
  /\ \A k \in 1..Len(trace) : trace[k].kind = "read"

\* The handler calls the record b at position i shows after the store of
\* a level, the manager's handlers being those passed in given.
CallsAfterStore(b, i, lvl, given) ==
  IF lvl = HIGH
  THEN (IF b.hasHandlers
          THEN <<Event("buttonPress", i, b.pin, HIGH, b.pressHandler)>> ELSE <<>>)
       \o <<Event("press", i, b.pin, HIGH, given[1])>>
  ELSE (IF b.hasHandlers
          THEN <<Event("buttonRelease", i, b.pin, LOW, b.releaseHandler)>> ELSE <<>>)
       \o <<Event("release", i, b.pin, LOW, given[2])>>

\* C6 (as claimed): registerHandlers calls nothing and changes no record and no index
\* entry.  From then on, whenever code of update() runs: every call of a
\* manager handler it makes is for a record whose state this update() call
\* has stored (a record whose read equals its stored state, its transition
\* consumed before, is not reported), goes to the handler passed last and
\* carries the record's pin; and every store is followed by the record's
\* own handler, if it has handlers, and, when that has returned, by the
\* manager handler passed last.
C6_LateGlobalHandlers ==
  [][/\ lastOp' = "registerHandlers"
          => (trace' = <<>> /\ buttons' = buttons /\ pinMap' = pinMap)
     /\ (Ran /\ givenHandlers # <<>>)
          => /\ \A k \in 1..Len(Step) :
                  LET e == Step[k]
                  IN  /\ e.kind \in GlobalKinds
                        => /\ e.fn = (IF e.kind = "press" THEN givenHandlers[1]
                                                          ELSE givenHandlers[2])
                           /\ e.pin = buttons[e.rec].pin
                           /\ Stored(trace', e.rec, IF e.kind = "press" THEN HIGH ELSE LOW)
                      /\ e.kind = "store"
                        => LET calls == CallsAfterStore(buttons[e.rec], e.rec, e.level,
                                                        givenHandlers)
                               rest == SubSeq(Step, k + 1, Len(Step))
                           IN  \/ Len(calls) = 1 /\ Len(rest) >= 1 /\ rest[1] = calls[1]
                               \/ Len(calls) = 2 /\ rest = <<calls[1]>>
             /\ (~Called /\ TopTrace[Len(TopTrace)].kind \in OwnKinds)
                  => LET own == TopTrace[Len(TopTrace)]
                     IN  /\ Step # <<>>
                         /\ Step[1] = CallsAfterStore(buttons[own.rec], own.rec, own.level,
                                                      givenHandlers)[2]
    ]_vars

\* The calls of handlers that tr holds, in order: the function called and,
\* for a manager handler, its argument.
HandlerCalls(tr) ==
  LET IsCall(e) == e.kind \in CallKinds
      calls == SelectSeq(tr, IsCall)
  IN  [k \in 1..Len(calls) |->
         IF calls[k].kind \in GlobalKinds
         THEN <<calls[k].kind, calls[k].fn, calls[k].pin>>
         ELSE <<calls[k].kind, calls[k].fn>>]

\* The levels the digitalReads of tr returned, in order.
LevelsRead(tr) == [k \in 1..Len(Reads(tr)) |-> Reads(tr)[k].level]

\* The stored states of the records of bs.
RecordStates(bs) == [i \in 1..Len(bs) |-> bs[i].state]

\* C7 (as claimed): two managers that were given the same operations and
\* the same levels so far are in the same state; if that state is inside a
\* handler called by update(), and the handler returns in both and the
\* loop of update() runs on, every digitalRead returning the same level in
\* both, then both have made the same handler calls with the same
\* arguments in the same order, both have returned or both wait in the
\* same handler, and the records store the same states.  (The other
\* operations, and update() from its call to its first handler call, are
\* functions of the manager's state and their arguments.)
C7_Determinism ==
  (stack # <<>> /\ ~halted) =>
    LET f == stack[Len(stack)]
        RunOn(flips, junk) == UpdateLoop(buttons, level, flips, f, junk,
                                         hasHandlers, pressHandler, releaseHandler)
    IN  \A flips \in SUBSET ((f.i + 1)..f.end) :
          \A junk1 \in Junk(buttons, f) : \A junk2 \in Junk(buttons, f) :
            LET one == RunOn(flips, junk1)
                two == RunOn(flips, junk2)
            IN  LevelsRead(one.frame.tr) = LevelsRead(two.frame.tr)
                  => /\ HandlerCalls(one.frame.tr) = HandlerCalls(two.frame.tr)
                     /\ one.done = two.done
                     /\ RecordStates(one.buttons) = RecordStates(two.buttons)

\* C8 (as claimed): every key of the index maps to a position of the
\* vector, and the record there has that pin.
C8_IndexInvariant ==
  \A p \in DOMAIN pinMap :
    /\ pinMap[p] >= 0 /\ pinMap[p] < Len(buttons)
    /\ buttons[pinMap[p] + 1].pin = p

\* The last position of bs that holds pin P.
LastRecordOf(bs, P) ==
  CHOOSE i \in 1..Len(bs) : bs[i].pin = P /\ \A j \in (i + 1)..Len(bs) : bs[j].pin # P

\* C9 (as claimed): getState of a registered pin returns the state of the
\* record registered last for it; getState of a pin never registered is an
\* out-of-bounds access that reads no record and leaves the manager's
\* state as it was.
C9_GetState ==
  [][lastOp' = "getState" =>
       LET p == lastArg'[1] IN
         /\ buttons' = buttons
         /\ hasHandlers' = hasHandlers
         /\ IF HasRecord(buttons, p)
            THEN /\ trace' = <<Event("stateRead", LastRecordOf(buttons, p), p, LOW, NoFn)>>
                 /\ ret' = buttons[LastRecordOf(buttons, p)].state
                 /\ pinMap' = pinMap
            ELSE /\ trace'[1].kind = "outOfBounds"
                 /\ pinMap' = pinMap
    ]_vars

\* C10: when an update() call returns during which no handler called an
\* operation that changes the manager, every record was read and stores
\* the level read for it, so getState(P) is the level read for the record
\* of P it looks up; a step that runs no code of update(), a change of the
\* live level included, changes no stored state and calls no handler.
C10_StateTracksLastPoll ==
  [][/\ (lastOp' = "update" /\ ~during'.entered) =>
          /\ Len(Reads(trace')) = Len(buttons')
          /\ \A i \in 1..Len(buttons') :
               LET ev == EventsOf(trace', i)
               IN  /\ ev[1].kind = "read" /\ ev[1].pin = buttons'[i].pin
                   /\ buttons'[i].state = (ev[1].level = HIGH)
          /\ \A P \in Pins :
               HasRecord(buttons', P) =>
                 StateOf(buttons', pinMap', P)
                   = (EventsOf(trace', IndexedOf(trace', P))[1].level = HIGH)
     /\ ~Ran =>
          /\ Len(buttons') >= Len(buttons)
          /\ \A i \in 1..Len(buttons) : buttons'[i].state = buttons[i].state
          /\ \A k \in 1..Len(trace') : trace'[k].kind \notin CallKinds
    ]_vars

\* C10 (as claimed): when any update() call returns, every record it read
\* stores the level read for it, and for every pin P that had a record when
\* the call began getState(P) is the level read for the record of P that
\* getState looked up then.
C10_AsClaimed ==
  Returned =>
    /\ \A i \in 1..Len(buttons) :
         EventsOf(trace, i) # <<>>
           => buttons[i].state = (EventsOf(trace, i)[1].level = HIGH)
    /\ \A P \in Pins :
         ReadOf(trace, P) # {} =>
           StateOf(buttons, pinMap, P)
             = (EventsOf(trace, IndexedOf(trace, P))[1].level = HIGH)

\* An update() whose handlers did nothing to the manager has just returned
\* to the host's main code; the level of a pin changed while one of its
\* handlers ran, and the record of the pin stores the level that was read.
C10_Witness ==
  /\ Returned /\ Clean /\ during.moved /\ stack = <<>>
  /\ \E i \in 1..Len(buttons) :
       /\ Changed(trace, i)
       /\ buttons[i].state
       /\ level[buttons[i].pin] = LOW

\* How many events of ev have one of the kinds.
CountOf(ev, kinds) == Cardinality({k \in 1..Len(ev) : ev[k].kind \in kinds})

\* C11: the reads of an update() call are those of the records that
\* existed when it began, one each, in the vector's order; they are all the
\* records when the call returns unless one of its handlers called an
\* operation that changes the manager.  For each record the call makes at
\* most one call of the record's own handlers and at most one call of the
\* manager's handlers, and never a press call and a release call both.
C11_OneComparisonPerRecord ==
  InCall =>
    /\ Len(Reads(trace)) <= Len(buttons)
    /\ \A j \in 1..Len(Reads(trace)) : Reads(trace)[j].rec = j
    /\ (Returned /\ Clean) => Len(Reads(trace)) = Len(buttons)
    /\ \A i \in 1..Len(buttons) :
         LET ev == EventsOf(trace, i)
         IN  /\ CountOf(ev, OwnKinds) <= 1
             /\ CountOf(ev, GlobalKinds) <= 1
             /\ CountOf(ev, PressKinds) = 0 \/ CountOf(ev, ReleaseKinds) = 0

\* C11 (as claimed): when an update() call returns it has read each record
\* exactly once, and called at most one own handler and at most one manager
\* handler for it, never a press and a release handler both.
C11_AsClaimed ==
  Returned =>
    \A i \in 1..Len(buttons) :
      LET ev == EventsOf(trace, i)
      IN  /\ CountOf(ev, {"read"}) = 1
          /\ CountOf(ev, OwnKinds) <= 1
          /\ CountOf(ev, GlobalKinds) <= 1
          /\ CountOf(ev, PressKinds) = 0 \/ CountOf(ev, ReleaseKinds) = 0

\* An update() whose handlers did nothing to the manager has just returned
\* after it saw one record go high and another go low, each with handlers
\* of its own on a manager with handlers: one read, one store and two calls
\* for each.
C11_Witness ==
  /\ Returned /\ Clean
  /\ hasHandlers
  /\ Len(buttons) = 2
  /\ buttons[1].hasHandlers /\ buttons[2].hasHandlers
  /\ buttons[1].state # buttons[2].state
  /\ Len(EventsOf(trace, 1)) = 4 /\ Len(EventsOf(trace, 2)) = 4

\* The positions of bs that hold pin P.
RecordsOf(bs, P) == {i \in 1..Len(bs) : bs[i].pin = P}

\* The calls of the manager's handlers with pin P that tr holds.
GlobalCallsWith(tr, P) ==
  LET Mine(e) == e.pin = P /\ e.kind \in GlobalKinds IN SelectSeq(tr, Mine)

\* The operation that has just run registered one pin.
RegistersOnePin(_op) == _op \in {"registerButton", "registerButtonWithHandlers"}

\* C12: registering a pin that has a record already stops nothing and calls
\* nothing, appends one record of that pin after the existing ones, which
\* stay as they are, and points the index of the pin at the new last
\* position.  When an update() call returns during which no handler called
\* an operation that changes the manager, it has read every record, the
\* earlier records of a pin included, and for each one whose stored state
\* differed from the level read it has called the record's own handler (if
\* it has handlers); if the manager has handlers, the manager's handler was
\* called with a pin once per record of the pin whose stored state differed
\* from the level read.
C12_DuplicateRegistration ==
  [][/\ (RegistersOnePin(lastOp') /\ HasRecord(buttons, lastArg'[1]))
          => /\ ~halted' /\ trace' = <<>>
             /\ Len(buttons') = Len(buttons) + 1
             /\ SubSeq(buttons', 1, Len(buttons)) = buttons
             /\ buttons'[Len(buttons')].pin = lastArg'[1]
             /\ pinMap'[lastArg'[1]] = Len(buttons') - 1
     /\ (lastOp' = "update" /\ ~during'.entered)
          => /\ \A i \in 1..Len(Reads(trace')) :
                  LET ev == EventsOf(trace', i)
                      b == buttons'[i]
                  IN  /\ ev[1].kind = "read" /\ ev[1].pin = b.pin
                      /\ Len(ev) > 1 =>
                           /\ ev[2] = Event("store", i, b.pin, ev[1].level, NoFn)
                           /\ b.hasHandlers =>
                                (Len(ev) > 2 /\ ev[3].kind \in OwnKinds
                                 /\ ev[3].level = ev[1].level)
             /\ \A P \in Pins :
                  hasHandlers' =>
                    Len(GlobalCallsWith(trace', P)) =
                      Cardinality({i \in ReadOf(trace', P) : Changed(trace', i)})
    ]_vars

\* C12 (as claimed, last part): when an update() call returns on a manager
\* with handlers, no handler having called an operation that changes the
\* manager: if it read one level for pin P throughout and the earliest
\* record of P stored the other, the manager's handler was called with P
\* once per record holding P.
C12_OncePerRecord ==
  (Returned /\ Clean /\ hasHandlers) =>
    \A P \in Pins : \A lvl \in {LOW, HIGH} :
      (/\ ReadOf(trace, P) # {}
       /\ ReadsAre(trace, P, lvl)
       /\ \E i \in ReadOf(trace, P) :
            /\ \A j \in ReadOf(trace, P) : i <= j
            /\ Stored(trace, i, lvl))
      => Len(GlobalCallsWith(trace, P)) = Cardinality(RecordsOf(buttons, P))

\* An update() has just seen a pin with two records go high: the earlier
\* record, which the index no longer points at, fired its own press handler,
\* and the manager's press handler was called with the pin twice.
C12_Witness ==
  /\ Returned /\ Clean
  /\ hasHandlers
  /\ Len(buttons) = 2
  /\ buttons[1].pin = buttons[2].pin
  /\ pinMap[buttons[1].pin] = 1
  /\ buttons[1].hasHandlers
  /\ Stored(trace, 1, HIGH) /\ Stored(trace, 2, HIGH)
  /\ \E k \in 1..Len(trace) : trace[k].kind = "buttonPress" /\ trace[k].rec = 1
  /\ Len(GlobalCallsWith(trace, buttons[1].pin)) = 2

\* <<buttons, pinMap>> after registerButton(byte) has been called for the
\* first n elements of _pins, one call after the other.
RECURSIVE CalledInTurn(_, _, _, _)
CalledInTurn(bs, pm, _pins, n) ==
  IF n = 0 THEN <<bs, pm>>
  ELSE LET before == CalledInTurn(bs, pm, _pins, n - 1)
           grown == Append(before[1], Button(_pins[n]))
       IN  <<grown, [x \in (DOMAIN before[2]) \cup {_pins[n]} |->
                       IF x = _pins[n] THEN Len(grown) - 1 ELSE before[2][x]]>>

\* C13: registerButton(std::vector<byte>) leaves the vector and the index
\* that calling registerButton(byte) for each element, in order, leaves;
\* this holds for the empty vector and for vectors that repeat a pin.
C13_BatchIsSequence ==
  [][lastOp' = "registerButtons" =>
       <<buttons', pinMap'>> = CalledInTurn(buttons, pinMap, lastArg', Len(lastArg'))
    ]_vars

\* registerButton(std::vector<byte>) has just registered one pin twice: two
\* records of the pin, the index at the second.
C13_Witness ==
  /\ lastOp = "registerButtons"
  /\ Len(lastArg) = 2 /\ lastArg[1] = lastArg[2]
  /\ Len(buttons) = 2
  /\ buttons[1].pin = lastArg[1] /\ buttons[2].pin = lastArg[1]
  /\ pinMap[lastArg[1]] = 1

\* The functions the host passes as manager handlers.
GlobalFns == {hp[1] : hp \in GlobalHandlerPairs} \cup {hp[2] : hp \in GlobalHandlerPairs}

RankOf(_kind) ==
  IF _kind = "read" THEN 0
  ELSE IF _kind = "store" THEN 1
  ELSE IF _kind \in OwnKinds THEN 2 ELSE 3

Registers(_op) ==
  _op \in {"registerButton", "registerButtons", "registerButtonWithHandlers"}

\* C17: the three registerButton operations leave the records that exist
\* where and as they are and append, after them, one record per pin passed,
\* in the order passed, each storing false; no step removes a record or
\* changes the pin or the handlers of one; the stored state of a record
\* changes only in a step in which code of update() runs, and only to a
\* level read for it that differs from the state stored.
C17_AppendOnly ==
  [][/\ Registers(lastOp') =>
          /\ Len(buttons') = Len(buttons) + Len(lastArg')
          /\ SubSeq(buttons', 1, Len(buttons)) = buttons
          /\ \A k \in 1..Len(lastArg') :
               /\ buttons'[Len(buttons) + k].pin = lastArg'[k]
               /\ ~buttons'[Len(buttons) + k].state
     /\ Len(buttons') >= Len(buttons)
     /\ \A i \in 1..Len(buttons) :
          /\ buttons'[i] = [buttons[i] EXCEPT !.state = buttons'[i].state]
          /\ buttons'[i].state # buttons[i].state =>
               /\ Ran
               /\ Stored(Step, i, IF buttons[i].state THEN LOW ELSE HIGH)
               /\ EventsOf(Step, i)[1].kind = "read"
               /\ buttons'[i].state = (EventsOf(Step, i)[1].level = HIGH)
    ]_vars

\* After a poll that left a record with handlers high, registerButton,
\* called from inside a handler, has just appended a record of a pin whose
\* level is high: the first record is still high, the new one stores false.
C17_Witness ==
  /\ lastOp = "registerButton" /\ polled
  /\ stack # <<>>
  /\ Len(buttons) = 2
  /\ buttons[1].hasHandlers /\ buttons[1].state
  /\ buttons[2].pin = lastArg[1] /\ ~buttons[2].state
  /\ level[lastArg[1]] = HIGH

\* C18 (as claimed): the calls of the own handlers of a record registered
\* with handlers alternate, the first being a press call: the last two
\* calls are none and none, a press and none before it, or a press and a
\* release in either order; the record stores true exactly when the last
\* call was a press call (false when there was none).
C18_PressReleaseAlternate ==
  /\ Len(fired) = Len(buttons)
  /\ \A i \in 1..Len(buttons) :
       buttons[i].hasHandlers =>
         /\ fired[i] \in {NoCalls,
                          <<"buttonPress", "none">>,
                          <<"buttonRelease", "buttonPress">>,
                          <<"buttonPress", "buttonRelease">>}
         /\ buttons[i].state <=> (fired[i][1] = "buttonPress")

\* C19 (as claimed, of the returns to the host's main code of the update()
\* calls that have read every record): the manager's handlers being
\* registered at every update() and no level changing while an update()
\* runs (SpecRegular), when such an update() call returns, the record
\* getState looks up for a registered pin P stores true exactly when the
\* last call of a manager handler with P was a press call (false when it
\* was a release call or there was none).
C19_StateIsLastGlobalCall ==
  (Returned /\ stack = <<>> /\ Len(Reads(trace)) = Len(buttons)) =>
    \A P \in Pins :
      HasRecord(buttons, P) =>
        (StateOf(buttons, pinMap, P) <=> (lastGlobal[P] = "press"))

====
